---- MODULE Spec2Model ----
(***************************************************************************)
(* A model of the command-line calendar of src/main.rs: the Calendar       *)
(* (last_id, events), its command handlers and the text format it saves    *)
(* and loads.                                                              *)
(*                                                                         *)
(* A Rust String is modelled as the sequence of its bytes, so that the     *)
(* comparison of dates and times, trim(), lines(), split('|') and the      *)
(* parsing and formatting of ids are computed as the code computes them.   *)
(***************************************************************************)
EXTENDS Integers, Sequences, FiniteSets, TLC

VARIABLES last_id, events, seen, last, status, stdin

vars == <<last_id, events, seen, last, status, stdin>>

(* ------------------------------ bounds --------------------------------- *)

\* The Calendar holds at most MaxEvents events (MaxUpdated where every field
\* of an event varies) and last_id is at most MaxId.
MaxEvents == 3
MaxUpdated == 2
MaxId == 4

(* ------------------------------ bytes ---------------------------------- *)

PIPE == 124
LF == 10
CR == 13
SP == 32
TAB == 9
PLUS == 43
ZERO == 48

Empty == << >>

\* The outcome of a read_line that failed: no String is equal to it.
IOERR == << -1 >>

\* The outcome of a str::parse::<u64> that failed.
ParseErr == -1

\* char::is_whitespace, on the bytes the model uses.
IsWhitespace(c) == c \in {TAB, LF, 11, 12, CR, SP}

RECURSIVE TrimStart(_)
TrimStart(s) ==
    IF s = Empty THEN Empty
    ELSE IF IsWhitespace(Head(s)) THEN TrimStart(Tail(s))
    ELSE s

RECURSIVE TrimEnd(_)
TrimEnd(s) ==
    IF s = Empty THEN Empty
    ELSE IF IsWhitespace(s[Len(s)]) THEN TrimEnd(SubSeq(s, 1, Len(s) - 1))
    ELSE s

\* str::trim
Trim(s) == TrimEnd(TrimStart(s))

\* ask_details on the outcome r of its read_line: the error is propagated
\* by `?`, a line is trimmed.
ask_details(r) == IF r = IOERR THEN IOERR ELSE Trim(r)

IsDigit(c) == c >= ZERO /\ c <= ZERO + 9

RECURSIVE ParseDigits(_, _)
ParseDigits(s, acc) ==
    IF s = Empty THEN acc
    ELSE IF ~IsDigit(Head(s)) THEN ParseErr
    ELSE ParseDigits(Tail(s), acc * 10 + (Head(s) - ZERO))

\* <u64 as FromStr>::from_str: an optional '+', then one or more digits.
\* (The strings of the model have at most two digits; 2^64 is out of reach.)
ParseU64(s) ==
    IF s = Empty THEN ParseErr
    ELSE IF Head(s) = PLUS
         THEN IF Tail(s) = Empty THEN ParseErr ELSE ParseDigits(Tail(s), 0)
    ELSE ParseDigits(s, 0)

RECURSIVE FormatU64(_)
\* <u64 as Display>::fmt: the decimal digits, no sign, no leading zero.
FormatU64(n) ==
    IF n < 10 THEN << ZERO + n >>
    ELSE FormatU64(n \div 10) \o << ZERO + (n % 10) >>

RECURSIVE Split(_, _)
\* str::split(sep).collect(): the parts between the separators, one more
\* than there are separators.
Split(s, sep) ==
    IF \A i \in 1..Len(s) : s[i] # sep THEN << s >>
    ELSE LET p == CHOOSE i \in 1..Len(s) :
                      s[i] = sep /\ \A j \in 1..(i - 1) : s[j] # sep
         IN << SubSeq(s, 1, p - 1) >> \o Split(SubSeq(s, p + 1, Len(s)), sep)

\* One item of str::lines: the trailing "\n", and one "\r" before it, are
\* stripped.
StripLineEnd(l) ==
    IF l # Empty /\ l[Len(l)] = LF
    THEN LET m == SubSeq(l, 1, Len(l) - 1)
         IN IF m # Empty /\ m[Len(m)] = CR THEN SubSeq(m, 1, Len(m) - 1) ELSE m
    ELSE l

RECURSIVE Lines(_)
\* str::lines: the text is cut after every "\n" (split_inclusive), a last
\* piece without "\n" is a line too, and nothing follows a final "\n".
Lines(s) ==
    IF s = Empty THEN << >>
    ELSE IF \A i \in 1..Len(s) : s[i] # LF THEN << StripLineEnd(s) >>
    ELSE LET p == CHOOSE i \in 1..Len(s) :
                      s[i] = LF /\ \A j \in 1..(i - 1) : s[j] # LF
         IN << StripLineEnd(SubSeq(s, 1, p)) >> \o Lines(SubSeq(s, p + 1, Len(s)))

RECURSIVE StrLess(_, _)
\* <str as Ord>::lt: byte-wise lexicographic order.
StrLess(a, b) ==
    IF b = Empty THEN FALSE
    ELSE IF a = Empty THEN TRUE
    ELSE IF Head(a) # Head(b) THEN Head(a) < Head(b)
    ELSE StrLess(Tail(a), Tail(b))

(* ----------------------------- Calendar -------------------------------- *)

\* struct Event
Event(id, title, date, time, description) ==
    [id |-> id, title |-> title, date |-> date, time |-> time,
     description |-> description]

\* Calendar::new
Calendar_new == [last_id |-> 0, events |-> << >>]

RECURSIVE LoadLines_StopAtBadLine(_, _, _)
\* The loop of load leaving at the first line that is not an event (break
\* for continue).
LoadLines_StopAtBadLine(lines, evs, max_id) ==
    IF lines = << >> THEN [events |-> evs, max_id |-> max_id]
    ELSE LET parts == Split(Head(lines), PIPE)
             id == ParseU64(parts[1])
         IN IF Len(parts) = 5 /\ id # ParseErr
            THEN LoadLines_StopAtBadLine(
                     Tail(lines),
                     Append(evs, Event(id, parts[2], parts[3], parts[4], parts[5])),
                     IF id > max_id THEN id ELSE max_id)
            ELSE [events |-> evs, max_id |-> max_id]

RECURSIVE LoadLines(_, _, _)
\* The loop of Calendar::load over the lines of the file: a line of 5 parts
\* whose first part parses is pushed and raises max_id, any other line is
\* passed over.
LoadLines(lines, evs, max_id) ==
    IF lines = << >> THEN [events |-> evs, max_id |-> max_id]
    ELSE LET parts == Split(Head(lines), PIPE)
             id == ParseU64(parts[1])
         IN IF Len(parts) = 5 /\ id # ParseErr
            THEN LoadLines(Tail(lines),
                           Append(evs, Event(id, parts[2], parts[3], parts[4], parts[5])),
                           IF id > max_id THEN id ELSE max_id)
            ELSE LoadLines(Tail(lines), evs, max_id)

\* load starting from an empty vector (the events of the file replace those
\* of the Calendar).
load_Replace(cal, content) ==
    LET r == LoadLines(Lines(content), << >>, 0)
    IN [last_id |-> r.max_id, events |-> r.events]

\* Calendar::load, once the file was read: content is the text of the file.
load(cal, content) ==
    LET r == LoadLines(Lines(content), cal.events, 0)
    IN [last_id |-> r.max_id, events |-> r.events]

\* The line writeln! writes for one event.
EventLine(e) ==
    FormatU64(e.id) \o << PIPE >> \o e.title \o << PIPE >> \o e.date
        \o << PIPE >> \o e.time \o << PIPE >> \o e.description \o << LF >>

RECURSIVE SaveText(_)
\* Calendar::save: the text written to the created file.
SaveText(evs) ==
    IF evs = << >> THEN Empty ELSE EventLine(Head(evs)) \o SaveText(Tail(evs))

\* create_event with the id taken before last_id is incremented.
create_event_IdBeforeIncrement(cal, title, date, time, description) ==
    [last_id |-> cal.last_id + 1,
     events |-> Append(cal.events,
                       Event(cal.last_id, title, date, time, description))]

\* Calendar::create_event, once its four inputs were read.
create_event(cal, title, date, time, description) ==
    LET id == cal.last_id + 1
    IN [last_id |-> id,
        events |-> Append(cal.events, Event(id, title, date, time, description))]

\* iter().position(|x| x.id == id): the first index, 0 for None.
Position(evs, id) ==
    IF \E i \in 1..Len(evs) : evs[i].id = id
    THEN CHOOSE i \in 1..Len(evs) :
             evs[i].id = id /\ \A j \in 1..(i - 1) : evs[j].id # id
    ELSE 0

\* Vec::remove
Remove(evs, pos) == SubSeq(evs, 1, pos - 1) \o SubSeq(evs, pos + 1, Len(evs))

\* delete_event with position(|x| x.id >= id).
delete_event_AtLeastId(cal, id) ==
    LET pos == IF \E i \in 1..Len(cal.events) : cal.events[i].id >= id
               THEN CHOOSE i \in 1..Len(cal.events) :
                        /\ cal.events[i].id >= id
                        /\ \A j \in 1..(i - 1) : cal.events[j].id < id
               ELSE 0
    IN IF pos # 0
       THEN [cal |-> [cal EXCEPT !.events = Remove(cal.events, pos)], res |-> "found"]
       ELSE [cal |-> cal, res |-> "notfound"]

\* Calendar::delete_event, once the id was read.
delete_event(cal, id) ==
    LET pos == Position(cal.events, id)
    IN IF pos # 0
       THEN [cal |-> [cal EXCEPT !.events = Remove(cal.events, pos)], res |-> "found"]
       ELSE [cal |-> cal, res |-> "notfound"]

\* Calendar::view, once the id was read: the events printed.
view(cal, id) ==
    LET pos == Position(cal.events, id)
    IN IF pos # 0
       THEN [out |-> << cal.events[pos] >>, res |-> "found"]
       ELSE [out |-> << >>, res |-> "notfound"]

\* The filter with e.time > time.
IsUpcoming_StrictTime(e, date, time) ==
    StrLess(date, e.date) \/ (e.date = date /\ StrLess(time, e.time))

\* The filter of Calendar::upcoming_events.
IsUpcoming(e, date, time) ==
    StrLess(date, e.date) \/ (e.date = date /\ ~StrLess(e.time, time))

\* The comparator of its sort_by: TRUE when a is Greater than b.
Greater(a, b) ==
    IF a.date = b.date THEN StrLess(b.time, a.time) ELSE StrLess(b.date, a.date)

RECURSIVE InsertSorted(_, _)
\* A stable insertion: e goes before the first element Greater than e.
InsertSorted(sorted, e) ==
    IF sorted = << >> THEN << e >>
    ELSE IF Greater(Head(sorted), e) THEN << e >> \o sorted
    ELSE << Head(sorted) >> \o InsertSorted(Tail(sorted), e)

RECURSIVE SortBy(_, _)
\* slice::sort_by (a stable sort), as the insertion of each element in turn.
SortBy(evs, sorted) ==
    IF evs = << >> THEN sorted
    ELSE SortBy(Tail(evs), InsertSorted(sorted, Head(evs)))

\* Calendar::upcoming_events for the clock (date, time): the events printed.
upcoming_events(cal, date, time) ==
    SortBy(SelectSeq(cal.events, LAMBDA e : IsUpcoming(e, date, time)), << >>)

RECURSIVE Contains(_, _)
\* str::contains: needle starts at some place of hay.
Contains(hay, needle) ==
    \/ Len(needle) <= Len(hay) /\ SubSeq(hay, 1, Len(needle)) = needle
    \/ hay # Empty /\ Contains(Tail(hay), needle)

\* The search looking at the titles only.
search_TitleOnly(cal, query) ==
    SelectSeq(cal.events, LAMBDA e : Contains(e.title, query))

\* Calendar::search, once the query was read: the events printed.
search(cal, query) ==
    SelectSeq(cal.events,
              LAMBDA e : Contains(e.title, query) \/ Contains(e.description, query))

\* A field overwritten by an empty input too.
Overwrite_Always(old, input) == input

\* One field of Calendar::update_event: a non-empty input overwrites.
Overwrite(old, input) == IF input # Empty THEN input ELSE old

\* Calendar::update_event, once the id was read. reads are the outcomes of
\* the four read_line calls that follow; a failed one returns early with the
\* fields before it already written. vals are the inputs obtained.
update_event(cal, id, reads) ==
    LET pos == Position(cal.events, id)
        title == ask_details(reads[1])
        date == ask_details(reads[2])
        time == ask_details(reads[3])
        description == ask_details(reads[4])
        e0 == cal.events[pos]
        e1 == [e0 EXCEPT !.title = Overwrite(e0.title, title)]
        e2 == [e1 EXCEPT !.date = Overwrite(e1.date, date)]
        e3 == [e2 EXCEPT !.time = Overwrite(e2.time, time)]
        e4 == [e3 EXCEPT !.description = Overwrite(e3.description, description)]
        With(e) == [cal EXCEPT !.events[pos] = e]
    IN IF pos = 0 THEN [cal |-> cal, res |-> "notfound", vals |-> << >>]
       ELSE IF title = IOERR THEN [cal |-> cal, res |-> "err", vals |-> << >>]
       ELSE IF date = IOERR THEN [cal |-> With(e1), res |-> "err", vals |-> << title >>]
       ELSE IF time = IOERR
            THEN [cal |-> With(e2), res |-> "err", vals |-> << title, date >>]
       ELSE IF description = IOERR
            THEN [cal |-> With(e3), res |-> "err", vals |-> << title, date, time >>]
       ELSE [cal |-> With(e4), res |-> "found",
             vals |-> << title, date, time, description >>]

RECURSIVE ask_u64(_)
\* ask_u64 on the outcomes of its successive read_line calls: it asks again
\* after an input that does not parse. The result is the number, IOErrId
\* when a read failed, StillAsking when the reads ran out before an answer.
StillAsking == -1
IOErrId == -2
ask_u64(reads) ==
    IF reads = << >> THEN StillAsking
    ELSE LET input == ask_details(Head(reads))
         IN IF input = IOERR THEN IOErrId
            ELSE IF ParseU64(input) # ParseErr THEN ParseU64(input)
            ELSE ask_u64(Tail(reads))

(* ------------------------------ inputs --------------------------------- *)

\* "2025-01-31" and "2025-02-01"
Date1 == << 50, 48, 50, 53, 45, 48, 49, 45, 51, 49 >>
Date2 == << 50, 48, 50, 53, 45, 48, 50, 45, 48, 49 >>

\* "09:00", "09:30" and "10:00"
Time1 == << 48, 57, 58, 48, 48 >>
Time2 == << 48, 57, 58, 51, 48 >>
Time3 == << 49, 48, 58, 48, 48 >>

\* A line as read_line returns it, with its "\n".
Line(s) == s \o << LF >>

\* The lines typed at the prompts of create: the title "a", the date
\* "2025-01-31", the time "09:00" and the description "x".
TitleLines == { Line(<< 97 >>) }
DateLines == { Line(Date1) }
TimeLines == { Line(Time1) }
DescLines == { Line(<< 120 >>) }

\* The empty line, typed to keep a field in update.
Blank == Line(Empty)

\* The lines typed at a numeric prompt: "0", "1", "2", and "x".
IdLines == { Line(FormatU64(n)) : n \in 0..2 }
NotANumber == Line(<< 120 >>)

\* The reads of one ask_u64: an answer, a failed read, or either of them
\* after one input that is no number.
IdReads ==
    { << l >> : l \in IdLines \cup { IOERR } }
        \cup { << NotANumber, Line(<< ZERO + 1 >>) >>, << NotANumber, IOERR >> }

\* The outcomes of a read_line inside a command. While standard input is
\* open it is one of lines or a failure; when the line of the command was
\* the last one, read_line finds the end of the input and leaves the buffer
\* empty.
Reads(lines) == IF stdin = "open" THEN lines \cup { IOERR } ELSE { Empty }

\* The reads of one ask_u64 inside a command: at the end of the input every
\* read is empty and no number is ever obtained.
NumReads == IF stdin = "open" THEN IdReads ELSE { << Empty >> }

\* The outcomes of the read_line that follows one whose outcome was r: none
\* is looked at once a read failed (or when no event has the id an update
\* was given).
After(r, lines) == IF r = IOERR THEN { IOERR } ELSE Reads(lines)

\* "1|a|2025-01-31|09:00|x"
GoodLine(id, description) ==
    id \o << PIPE, 97, PIPE >> \o Date1 \o << PIPE >> \o Time1 \o << PIPE >>
       \o description

\* The files a load may find at the path it is given: an empty file; the
\* events 1 and 2; an event 3 whose line ends in "\r\r\n"; and a file of a
\* good line, the line "9|b|c" of 3 parts, a line whose id is "oops" and a
\* last good line "+4|..." without "\n".
FileEmpty == Empty
FileTwo == Line(GoodLine(<< 49 >>, << 120 >>)) \o Line(GoodLine(<< 50 >>, << 120 >>))
FileCr == Line(GoodLine(<< 51 >>, << 120, CR, CR >>))
FileMixed ==
    Line(GoodLine(<< 49 >>, << 120 >>)) \o Line(<< 57, PIPE, 98, PIPE, 99 >>)
        \o Line(GoodLine(<< 111, 111, 112, 115 >>, << 120 >>))
        \o GoodLine(<< PLUS, 52 >>, << 120 >>)
Files == { FileEmpty, FileTwo, FileCr, FileMixed }

\* The outcome of a read_to_string or a File::create that failed.
NoFile == << -2 >>

(* ------------------------------- state --------------------------------- *)

\* The Calendar of main.
Cal == [last_id |-> last_id, events |-> events]

Ids(evs) == { evs[i].id : i \in 1..Len(evs) }

\* What the last command did, as the user saw it: the command, how it ended,
\* the id it was given (NoId when none was read), the inputs or the clock it
\* used, the events it printed and the text of the file it read or wrote.
NoId == -1
Last(cmd, res, id, vals, out, text) ==
    [cmd |-> cmd, res |-> res, id |-> id, vals |-> vals, out |-> out, text |-> text]

\* seen, in a specification that does not follow the ids of the session.
NotFollowed == { -1 }

\* main continuing after every result but Ok(false).
MainLoop_BreakOnErr(result) ==
    IF result = "Ok(true)" THEN "running" ELSE "exited"

\* The match of main on the result of handle_command: Ok(true) and Err
\* continue the loop, Ok(false) breaks it.
MainLoop(result) ==
    CASE result = "Ok(true)" -> "running"
      [] result = "Ok(false)" -> "exited"
      [] result = "Err" -> "running"

\* The result of handle_command for what the command did: Ok(false) for
\* "exit", the Err that `?` passed on (a failed read_line, a failed
\* File::create), Ok(true) otherwise.
handle_command(l) ==
    IF l.cmd = "exit" THEN "Ok(false)"
    ELSE IF l.res \in { "err", "nocreate" } THEN "Err"
    ELSE "Ok(true)"

\* The line of the command was read: it was the last line when standard
\* input was closing.
AfterLine == IF stdin = "closing" THEN "eof" ELSE stdin

\* One turn of the loop of main: the command was read and its handler
\* returns. The Calendar is c, and seen collects the ids that were in the
\* Calendar at some point of the session. At the end of the input
\* get_command returns "", which is no command.
Return(c, l) ==
    /\ status = "running"
    /\ stdin = "eof" => l.cmd = "unknown"
    /\ last_id' = c.last_id
    /\ events' = c.events
    /\ seen' = IF seen = NotFollowed THEN seen ELSE seen \cup Ids(c.events)
    /\ last' = l
    /\ status' = MainLoop(handle_command(l))
    /\ stdin' = AfterLine

\* A command whose ask_u64 never gets a number: the handler does not return.
Hang(cmd) ==
    /\ status = "running"
    /\ stdin = "closing"
    /\ last' = Last(cmd, "asking", NoId, << >>, << >>, Empty)
    /\ status' = "asking"
    /\ stdin' = AfterLine
    /\ UNCHANGED << last_id, events, seen >>

Init ==
    /\ last_id = Calendar_new.last_id
    /\ events = Calendar_new.events
    /\ seen = NotFollowed
    /\ last = Last("none", "ok", NoId, << >>, << >>, Empty)
    /\ status = "running"
    /\ stdin = "open"

(* ------------------------------ commands ------------------------------- *)

\* "create" counting the id before the four reads (last_id += 1 moved to
\* the top of create_event).
CreateEvent_IncrementFirst(cap, TL, DL, ML, XL) ==
    \E r1 \in Reads(TL) : \E r2 \in After(r1, DL) :
    \E r3 \in After(r2, ML) : \E r4 \in After(r3, XL) :
        LET title == ask_details(r1)
            date == ask_details(r2)
            time == ask_details(r3)
            description == ask_details(r4)
        IN /\ Len(events) < cap
           /\ last_id < MaxId
           /\ IF IOERR \in { title, date, time, description }
              THEN Return([last_id |-> last_id + 1, events |-> events],
                          Last("create", "err", NoId, << >>, << >>, Empty))
              ELSE Return(create_event(Cal, title, date, time, description),
                          Last("create", "ok", NoId,
                               << title, date, time, description >>, << >>, Empty))

\* "create": Calendar::create_event. A failed read returns before the
\* Calendar is touched.
CreateEvent(cap, TL, DL, ML, XL) ==
    \E r1 \in Reads(TL) : \E r2 \in After(r1, DL) :
    \E r3 \in After(r2, ML) : \E r4 \in After(r3, XL) :
        LET title == ask_details(r1)
            date == ask_details(r2)
            time == ask_details(r3)
            description == ask_details(r4)
        IN IF IOERR \in { title, date, time, description }
           THEN Return(Cal, Last("create", "err", NoId, << >>, << >>, Empty))
           ELSE /\ Len(events) < cap
                /\ last_id < MaxId
                /\ Return(create_event(Cal, title, date, time, description),
                          Last("create", "ok", NoId,
                               << title, date, time, description >>, << >>, Empty))

\* "delete": Calendar::delete_event.
DeleteEvent ==
    \E reads \in NumReads :
        LET id == ask_u64(reads)
            d == delete_event(Cal, id)
        IN IF id = IOErrId
           THEN Return(Cal, Last("delete", "err", NoId, << >>, << >>, Empty))
           ELSE IF id = StillAsking THEN Hang("delete")
           ELSE Return(d.cal, Last("delete", d.res, id, << >>, << >>, Empty))

\* "update": Calendar::update_event.
UpdateEvent(TL, DL, ML, XL) ==
    \E reads \in NumReads :
        LET id == ask_u64(reads)
        IN IF id = IOErrId
           THEN Return(Cal, Last("update", "err", NoId, << >>, << >>, Empty))
           ELSE IF id = StillAsking THEN Hang("update")
           ELSE \E r1 \in After(IF id \in Ids(events) THEN Blank ELSE IOERR,
                                TL \cup { Blank }) :
                \E r2 \in After(r1, DL \cup { Blank }) :
                \E r3 \in After(r2, ML \cup { Blank }) :
                \E r4 \in After(r3, XL \cup { Blank }) :
                    LET u == update_event(Cal, id, << r1, r2, r3, r4 >>)
                    IN Return(u.cal, Last("update", u.res, id, u.vals, << >>, Empty))

\* "view": Calendar::view.
View ==
    \E reads \in NumReads :
        LET id == ask_u64(reads)
            v == view(Cal, id)
        IN IF id = IOErrId
           THEN Return(Cal, Last("view", "err", NoId, << >>, << >>, Empty))
           ELSE IF id = StillAsking THEN Hang("view")
           ELSE Return(Cal, Last("view", v.res, id, << >>, v.out, Empty))

\* "list": Calendar::list_events prints every event.
ListEvents ==
    Return(Cal, Last("list", "ok", NoId, << >>, events, Empty))

\* "upcoming": Calendar::upcoming_events, the clock reading (date, time).
UpcomingEvents(DS, MS) ==
    \E date \in DS, time \in MS :
        Return(Cal, Last("upcoming", "ok", NoId, << date, time >>,
                         upcoming_events(Cal, date, time), Empty))

\* "save": Calendar::save. The path "f" is read, the file is created (or
\* not: never at the path "") and the text is written to it.
Save ==
    \E r \in Reads({ Line(<< 102 >>) }), created \in BOOLEAN :
        IF ask_details(r) = IOERR
        THEN Return(Cal, Last("save", "err", NoId, << >>, << >>, Empty))
        ELSE IF ~created \/ ask_details(r) = Empty
        THEN Return(Cal, Last("save", "nocreate", NoId, << >>, << >>, Empty))
        ELSE Return(Cal, Last("save", "ok", NoId, << >>, << >>, SaveText(events)))

\* load going on with an empty text after it reported that the file could
\* not be read (the return of the Err arm left out).
Load_NoReturnOnFailure ==
    \E r \in Reads({ Line(<< 102 >>) }),
       file \in Files \cup { NoFile }
                \cup (IF last.cmd = "save" /\ last.res = "ok" THEN { last.text } ELSE {}) :
        IF ask_details(r) = IOERR
        THEN Return(Cal, Last("load", "err", NoId, << >>, << >>, Empty))
        ELSE IF file = NoFile \/ ask_details(r) = Empty
        THEN Return(load(Cal, Empty), Last("load", "nofile", NoId, << >>, << >>, Empty))
        ELSE LET c == load(Cal, file)
             IN /\ Len(c.events) <= MaxEvents
                /\ Return(c, Last("load", "ok", NoId, << >>, << >>, file))

\* "load": Calendar::load. The path "f" is read; the file found there is one
\* of Files, or the file the last command saved, or cannot be read (as at
\* the path "").
Load ==
    \E r \in Reads({ Line(<< 102 >>) }),
       file \in Files \cup { NoFile }
                \cup (IF last.cmd = "save" /\ last.res = "ok" THEN { last.text } ELSE {}) :
        IF ask_details(r) = IOERR
        THEN Return(Cal, Last("load", "err", NoId, << >>, << >>, Empty))
        ELSE IF file = NoFile \/ ask_details(r) = Empty
        THEN Return(Cal, Last("load", "nofile", NoId, << >>, << >>, Empty))
        ELSE LET c == load(Cal, file)
             IN /\ Len(c.events) <= MaxEvents
                /\ Return(c, Last("load", "ok", NoId, << >>, << >>, file))

\* "search" keeping in the Calendar the events it prints (retain for filter).
Search_Retain(QL) ==
    \E r \in Reads(QL) :
        LET query == ask_details(r)
        IN IF query = IOERR
           THEN Return(Cal, Last("search", "err", NoId, << >>, << >>, Empty))
           ELSE Return([last_id |-> last_id, events |-> search(Cal, query)],
                       Last("search", "ok", NoId, << query >>,
                            search(Cal, query), Empty))

\* "search": Calendar::search.
Search(QL) ==
    \E r \in Reads(QL) :
        LET query == ask_details(r)
        IN IF query = IOERR
           THEN Return(Cal, Last("search", "err", NoId, << >>, << >>, Empty))
           ELSE Return(Cal, Last("search", "ok", NoId, << query >>,
                                 search(Cal, query), Empty))

\* "help": help prints the commands.
Help ==
    Return(Cal, Last("help", "ok", NoId, << >>, << >>, Empty))

\* Any other line, "" at the end of the input among them: the arm `_`
\* of handle_command.
UnknownCommand ==
    Return(Cal, Last("unknown", "ok", NoId, << >>, << >>, Empty))

\* "exit": handle_command returns Ok(false).
Exit ==
    Return(Cal, Last("exit", "ok", NoId, << >>, << >>, Empty))

\* The read_line of get_command fails: `?` makes main return the error.
GetCommandFails ==
    /\ status = "running"
    /\ stdin = "open"
    /\ last' = Last("prompt", "err", NoId, << >>, << >>, Empty)
    /\ status' = "aborted"
    /\ UNCHANGED << last_id, events, seen, stdin >>

Next ==
    \/ CreateEvent(MaxEvents, TitleLines, DateLines, TimeLines, DescLines)
    \/ DeleteEvent
    \/ UpdateEvent(TitleLines, {}, {}, {})
    \/ View
    \/ ListEvents
    \/ UpcomingEvents({ Date1 }, { Time1, Time2 })
    \/ Save
    \/ Load
    \/ Search({ Line(<< 97 >>), Line(<< 121 >>) })
    \/ Help
    \/ UnknownCommand
    \/ Exit
    \/ GetCommandFails

Spec == Init /\ [][Next]_vars

(* ------------------------ other specifications ------------------------- *)

\* A session whose ids are followed in seen.
InitSession ==
    /\ last_id = Calendar_new.last_id
    /\ events = Calendar_new.events
    /\ seen = {}
    /\ last = Last("none", "ok", NoId, << >>, << >>, Empty)
    /\ status = "running"
    /\ stdin = "open"

NextSession ==
    \/ CreateEvent(MaxEvents, TitleLines, DateLines, TimeLines, DescLines)
    \/ DeleteEvent
    \/ UpdateEvent(TitleLines, {}, {}, {})
    \/ Load

SpecSession == InitSession /\ [][NextSession]_vars

\* The titles "a" and " b|", two dates and two times.
TitleLines2 == { Line(<< 97 >>), Line(<< SP, 98, PIPE >>) }
DateLines2 == { Line(Date1), Line(Date2) }
TimeLines2 == { Line(Time1), Line(Time3) }

\* A session of create commands only.
NextCreates == CreateEvent(MaxEvents, TitleLines2, DateLines2, TimeLines2, DescLines)

SpecCreates == Init /\ [][NextCreates]_vars

\* A session of create and upcoming commands: events on two dates at two
\* times, the clock at either date and at a time before, between or at them.
NextUpcoming ==
    \/ CreateEvent(MaxEvents, TitleLines, DateLines2, TimeLines2, DescLines)
    \/ UpcomingEvents({ Date1, Date2 }, { Time1, Time2, Time3 })

SpecUpcoming == Init /\ [][NextUpcoming]_vars

\* A session of create and update commands: an update gives "c", the date
\* "2025-02-01", the time "10:00", the description "y", or leaves the
\* field blank.
NextUpdate ==
    \/ CreateEvent(MaxUpdated, TitleLines, DateLines, TimeLines, DescLines)
    \/ UpdateEvent({ Line(<< 99 >>) }, { Line(Date2) }, { Line(Time3) },
                   { Line(<< 121 >>) })

SpecUpdate == Init /\ [][NextUpdate]_vars

(* ------------------------------ claims --------------------------------- *)

MaxOf(S) == CHOOSE m \in S : \A n \in S : n <= m

\* The command that led to the next state.
Did(cmd, res) == last'.cmd = cmd /\ last'.res = res

\* C1: no two events of the Calendar have the same id.
C1_UniqueIds ==
    \A i, j \in 1..Len(events) : i # j => events[i].id # events[j].id

\* C2: every event of the Calendar has an id that is at most last_id.
C2_IdsAtMostLastId ==
    \A i \in 1..Len(events) : events[i].id <= last_id

\* C3: a successful load leaves last_id at the maximum of its value before
\* the load and the largest id among the events the load appended.
C3_LoadKeepsIdSpace ==
    [][Did("load", "ok") =>
          last_id' = MaxOf({ last_id }
                           \cup { events'[i].id : i \in (Len(events) + 1)..Len(events') })
      ]_vars

\* C4: the id a create assigns is the id of no event that was in the
\* Calendar at an earlier point of the session.
C4_IdNeverReused ==
    [][Did("create", "ok") => events'[Len(events')].id \notin seen]_vars

\* C5: in a session of create commands only, the k-th event created has id
\* k and last_id is the largest id assigned (0 before the first).
C5_CreatesCountUp ==
    /\ \A k \in 1..Len(events) : events[k].id = k
    /\ last_id = MaxOf({ 0 } \cup Ids(events))
    /\ last_id = Len(events)

C5_Witness ==
    /\ last.cmd = "create" /\ last.res = "ok"
    /\ Len(events) = 3 /\ events[3].id = 3 /\ last_id = 3

NoDelimiter(str) == \A i \in 1..Len(str) : str[i] \notin { PIPE, LF }

\* C6: when no field of an event holds '|' or "\n", loading the saved text
\* into a new Calendar gives the same sequence of events, and a last_id
\* that is the largest id saved.
C6_RoundTrip ==
    (\A i \in 1..Len(events) :
        /\ NoDelimiter(events[i].title) /\ NoDelimiter(events[i].date)
        /\ NoDelimiter(events[i].time) /\ NoDelimiter(events[i].description))
    => LET c == load(Calendar_new, SaveText(events))
       IN /\ c.events = events
          /\ c.last_id = MaxOf({ 0 } \cup Ids(events))

\* (date, time) of a is before that of b, in the order of the strings.
KeyLess(a, b) ==
    StrLess(a.date, b.date) \/ (a.date = b.date /\ StrLess(a.time, b.time))

\* The indices of the events that are not before the clock.
Selected(evs, date, time) ==
    { i \in 1..Len(evs) :
        StrLess(date, evs[i].date)
            \/ (evs[i].date = date /\ (evs[i].time = time \/ StrLess(time, evs[i].time))) }

\* The place of event i in the output: after the selected events with a
\* smaller key, and after those with the same key that were inserted before.
Rank(evs, sel, i) ==
    Cardinality({ j \in sel : KeyLess(evs[j], evs[i])
                                \/ (~KeyLess(evs[i], evs[j]) /\ j <= i) })

\* C7: upcoming prints exactly the events that are not before the clock,
\* ascending by (date, time), those of one (date, time) in the order of
\* the Calendar; the Calendar is left as it was.
C7_UpcomingCorrect ==
    [][Did("upcoming", "ok") =>
          LET sel == Selected(events, last'.vals[1], last'.vals[2])
          IN /\ Len(last'.out) = Cardinality(sel)
             /\ \A i \in sel : last'.out[Rank(events, sel, i)] = events[i]
             /\ events' = events
             /\ last_id' = last_id
      ]_vars

\* The clock is 2025-01-31 09:30: of the events 1 (09:00), 2 (10:00),
\* 3 (10:00) of that day, the first is left out and the tie 2, 3 is printed
\* in the order of the Calendar.
C7_Witness ==
    /\ last.cmd = "upcoming" /\ last.vals = << Date1, Time2 >>
    /\ Len(events) = 3 /\ Len(last.out) = 2
    /\ last.out[1].id = 2 /\ last.out[2].id = 3
    /\ last.out[1].time = last.out[2].time /\ last.out[1].date = last.out[2].date

\* C8: after a delete that found its id, a view of that id finds nothing,
\* one event is gone, the others are as they were and in their order, and
\* last_id is as it was.
C8_DeleteExact ==
    [][Did("delete", "found") =>
          /\ view(Cal', last'.id).res = "notfound"
          /\ \E p \in 1..Len(events) :
                /\ events[p].id = last'.id
                /\ Len(events') = Len(events) - 1
                /\ \A i \in 1..(p - 1) : events'[i] = events[i]
                /\ \A i \in p..Len(events') : events'[i] = events[i + 1]
          /\ last_id' = last_id
      ]_vars

\* C9: a delete, update or view that was given an id no event has reports
\* not-found, leaves events and last_id as they were, and an update has
\* asked for no field.
C9_NotFoundNonMutating ==
    [][(/\ last'.cmd \in { "delete", "update", "view" }
        /\ last'.id # NoId
        /\ last'.id \notin Ids(events))
       => /\ last'.res = "notfound"
          /\ events' = events
          /\ last_id' = last_id
          /\ last'.vals = << >>
          /\ last'.out = << >>
      ]_vars

C9_Witness ==
    /\ last.cmd = "delete" /\ last.res = "notfound"
    /\ Len(events) = 3
    /\ last.id < last_id

\* The fields an update may overwrite, in the order it asks for them.
Field(e, k) ==
    CASE k = 1 -> e.title [] k = 2 -> e.date [] k = 3 -> e.time
      [] k = 4 -> e.description

\* C10: an update of an id that an event has overwrites each field for
\* which a non-empty value was given and leaves the others; the id of the
\* event, the other events, the length of events and last_id stay.
C10_UpdateOverwritesNonEmpty ==
    [][(/\ last'.cmd = "update"
        /\ last'.id # NoId
        /\ last'.id \in Ids(events))
       => LET p == CHOOSE i \in 1..Len(events) :
                       /\ events[i].id = last'.id
                       /\ \A j \in 1..(i - 1) : events[j].id # last'.id
              given == last'.vals
          IN /\ last'.res \in { "found", "err" }
             /\ last'.res = "found" <=> Len(given) = 4
             /\ \A k \in 1..4 :
                   Field(events'[p], k) =
                       IF k <= Len(given) /\ given[k] # Empty
                       THEN given[k] ELSE Field(events[p], k)
             /\ events'[p].id = events[p].id
             /\ Len(events') = Len(events)
             /\ \A i \in 1..Len(events) : i # p => events'[i] = events[i]
             /\ last_id' = last_id
      ]_vars

\* The second of two events was given a title and a time, and kept its date
\* and description.
C10_Witness ==
    /\ last.cmd = "update" /\ last.res = "found" /\ last.id = 2
    /\ last.vals = << << 99 >>, Empty, Time3, Empty >>
    /\ Len(events) = 2
    /\ events[2] = Event(2, << 99 >>, Date1, Time3, << 120 >>)
    /\ events[1] = Event(1, << 97 >>, Date1, Time1, << 120 >>)

\* A string that is an unsigned number: an optional '+' and then digits.
IsNumber(str) ==
    LET digits == IF str # Empty /\ str[1] = PLUS THEN Tail(str) ELSE str
    IN digits # Empty /\ \A i \in 1..Len(digits) : IsDigit(digits[i])

\* A line of exactly 5 parts whose first part is an unsigned number.
WellFormed(line) ==
    LET parts == Split(line, PIPE)
    IN Len(parts) = 5 /\ IsNumber(parts[1])

\* The event a well-formed line stands for.
EventOf(line) ==
    LET parts == Split(line, PIPE)
    IN Event(ParseU64(parts[1]), parts[2], parts[3], parts[4], parts[5])

RECURSIVE Join(_)
\* The text of a file that has these lines.
Join(lines) ==
    IF lines = << >> THEN Empty ELSE Line(Head(lines)) \o Join(Tail(lines))

\* C11: a load appends the events of exactly the well-formed lines of the
\* file, in the order of the file, whatever lines stand between them; and
\* last_id is what it would be had the file held the well-formed lines only.
C11_BadLineTolerance ==
    [][Did("load", "ok") =>
          LET good == SelectSeq(Lines(last'.text), WellFormed)
          IN /\ Len(events') = Len(events) + Len(good)
             /\ \A k \in 1..Len(good) : events'[Len(events) + k] = EventOf(good[k])
             /\ last_id' = load(Cal, Join(good)).last_id
      ]_vars

\* The file of four lines, two of them well-formed, was loaded into a
\* Calendar of one event: the events 1 and 4 followed it, and last_id is 4.
C11_Witness ==
    /\ last.cmd = "load" /\ last.res = "ok" /\ last.text = FileMixed
    /\ Len(events) = 3
    /\ events[2].id = 1 /\ events[3].id = 4
    /\ last_id = 4

\* C12: a load whose file cannot be read reports it, leaves events and
\* last_id as they were, and the loop of main goes on.
C12_LoadFailureLeavesStore ==
    [][last'.cmd = "load" /\ last'.res = "nofile" =>
          /\ events' = events
          /\ last_id' = last_id
          /\ status' = "running"
      ]_vars

C12_Witness ==
    /\ last.cmd = "load" /\ last.res = "nofile"
    /\ Len(events) = 2 /\ last_id = 2
    /\ status = "running"

\* C13: the loop of main is left by "exit" and by no other command: after
\* any other command, unknown or failed ones among them, main is at its
\* prompt again.
C13_OnlyExitEndsLoop ==
    [][/\ status' = "exited" <=> last'.cmd = "exit"
       /\ last'.cmd \notin { "exit", "prompt" } => status' = "running"
      ]_vars

\* A save that could not create its file returned an error, and main is at
\* its prompt with the Calendar it had.
C13_Witness ==
    /\ last.cmd = "save" /\ last.res = "nocreate"
    /\ status = "running"
    /\ Len(events) = 2

\* Standard input comes to its end: one more line can be read, or none.
StdinCloses ==
    /\ status = "running"
    /\ stdin = "open"
    /\ stdin' \in { "closing", "eof" }
    /\ UNCHANGED << last_id, events, seen, last, status >>

\* One more turn of the loop of ask_u64 at the end of the input: the read
\* is empty, it is no number, and ask_u64 asks again.
AskAgain ==
    /\ status = "asking"
    /\ stdin = "eof"
    /\ ask_u64(<< Empty >>) = StillAsking
    /\ UNCHANGED vars

\* A session whose standard input may come to its end. The program always
\* takes its next step.
NextEof ==
    \/ CreateEvent(MaxEvents, TitleLines, DateLines, TimeLines, DescLines)
    \/ DeleteEvent
    \/ View
    \/ ListEvents
    \/ UnknownCommand
    \/ Exit
    \/ StdinCloses
    \/ AskAgain

SpecEof == Init /\ [][NextEof]_vars /\ WF_vars(NextEof)

\* C14: once standard input is at its end, the session ends as by "exit".
C14_EofEndsSession ==
    [](stdin = "eof" => <>(status = "exited"))

\* C15: a read of standard input that fails, at the prompt of main or
\* inside a command, ends the session with the error.
C15_ReadFailureAborts ==
    [][last'.res = "err" => status' = "aborted"]_vars

\* C16: no field of an event of the Calendar holds '|' or "\n".
C16_NoDelimiterInFields ==
    \A i \in 1..Len(events) :
        \A k \in 1..4 : \A j \in 1..Len(Field(events[i], k)) :
            Field(events[i], k)[j] # PIPE /\ Field(events[i], k)[j] # LF

\* A session of create and search commands: the titles "ab" and "A", the
\* descriptions "x" and "a"; the queries "", " ", "a", "A", "b", "ab", "ba".
NextSearch ==
    \/ CreateEvent(MaxEvents, { Line(<< 97, 98 >>), Line(<< 65 >>) }, DateLines,
                   TimeLines, { Line(<< 120 >>), Line(<< 97 >>) })
    \/ Search({ Blank, Line(<< SP >>), Line(<< 97 >>), Line(<< 65 >>),
                Line(<< 98 >>), Line(<< 97, 98 >>), Line(<< 98, 97 >>) })

SpecSearch == Init /\ [][NextSearch]_vars

\* needle stands in hay, byte for byte, at some offset.
Occurs(needle, hay) ==
    \E i \in 0..(Len(hay) - Len(needle)) :
        \A j \in 1..Len(needle) : hay[i + j] = needle[j]

\* C17: search prints, in the order of the Calendar, exactly the events
\* whose title or description holds the query; all of them when the query
\* is empty.
C17_SearchCorrect ==
    [][Did("search", "ok") =>
          LET query == last'.vals[1]
              sel == { i \in 1..Len(events) :
                         Occurs(query, events[i].title)
                             \/ Occurs(query, events[i].description) }
          IN /\ Len(last'.out) = Cardinality(sel)
             /\ \A i \in sel :
                   last'.out[Cardinality({ j \in sel : j <= i })] = events[i]
             /\ query = Empty => last'.out = events
      ]_vars

\* The query "a" on the events ("ab", "x"), ("A", "x"), ("A", "a"): the
\* first is printed for its title, the third for its description, the
\* second is not.
C17_Witness ==
    /\ last.cmd = "search" /\ last.vals = << << 97 >> >>
    /\ Len(events) = 3
    /\ events[1].title = << 97, 98 >> /\ events[1].description = << 120 >>
    /\ events[2].title = << 65 >> /\ events[2].description = << 120 >>
    /\ events[3].title = << 65 >> /\ events[3].description = << 97 >>
    /\ last.out = << events[1], events[3] >>

\* C18: a load keeps the events the Calendar had, in their places, and puts
\* the events of the file after them in the order of its lines.
C18_LoadAppends ==
    [][Did("load", "ok") =>
          /\ Len(events') >= Len(events)
          /\ SubSeq(events', 1, Len(events)) = events
          /\ SubSeq(events', Len(events) + 1, Len(events'))
                 = load(Calendar_new, last'.text).events
      ]_vars

\* The file of the events 1 and 2 was loaded into a Calendar of one event:
\* they stand second and third.
C18_Witness ==
    /\ last.cmd = "load" /\ last.res = "ok" /\ last.text = FileTwo
    /\ Len(events) = 3
    /\ events[2].id = 1 /\ events[3].id = 2

\* C19: list, view, search, upcoming, save, help and an unknown command
\* leave events and last_id as they were, whether they succeed or fail.
C19_ReadOnlyCommands ==
    [][last'.cmd \in { "list", "view", "search", "upcoming", "save", "help",
                       "unknown" }
          => events' = events /\ last_id' = last_id
      ]_vars

\* A search printed events of a Calendar of two.
C19_Witness ==
    /\ last.cmd = "search" /\ last.res = "ok"
    /\ Len(events) = 2 /\ Len(last.out) >= 1

\* C20: a create that fails to read one of its four inputs leaves events and
\* last_id as they were; a create changes them only together, by one event
\* and by one, once the four inputs were read.
C20_CreateAllOrNothing ==
    [][/\ Did("create", "err") => events' = events /\ last_id' = last_id
       /\ last'.cmd = "create" /\ (events' # events \/ last_id' # last_id) =>
              /\ Did("create", "ok")
              /\ Len(last'.vals) = 4
              /\ last_id' = last_id + 1
              /\ events' = Append(events,
                                  Event(last_id', last'.vals[1], last'.vals[2],
                                        last'.vals[3], last'.vals[4]))
      ]_vars

\* A create failed at a read in a Calendar that had an event.
C20_Witness ==
    /\ last.cmd = "create" /\ last.res = "err"
    /\ Len(events) >= 1 /\ last_id >= 1

====
